---- MODULE Spec2Model ----
(***************************************************************************)
(* A model of TreeSimulation.py: one Tree (EnergyAspect, LogicAspect,      *)
(* ControlAspect) advanced one simulated day at a time by                  *)
(* Tree.daily_update, first by the loop of simulate_growth (constant       *)
(* weather, calendar days) and then by further daily_update calls with     *)
(* arbitrary inputs.                                                       *)
(*                                                                         *)
(* Numbers.  Nutrients, sizes, factors, health and growth rates are        *)
(* Python floats; the model keeps them in fixed point, in units of         *)
(* 1/SCALE, every product rounded down to a unit.  The age is kept as the  *)
(* IEEE-754 double the code holds, bit for bit: an integer number of       *)
(* 2^-61 (the unit in the last place of the double 1/365), in four 16-bit  *)
(* limbs, least significant first, rounded to 53 significant bits, ties    *)
(* to even, after every addition.                                          *)
(***************************************************************************)
EXTENDS Integers, Sequences, FiniteSets, TLC

VARIABLES
    years,             \* simulate_growth's parameter
    day,               \* simulate_growth's loop variable: iterations completed
    free,              \* daily_update calls made after the loop
    age,               \* Tree.age, a double
    stored_nutrients,  \* energy.state["stored_nutrients"]
    tree_size,         \* energy.state["tree_size"]
    has_leaves,        \* energy.has_leaves
    health,            \* control.state["health"]
    growth_rate,       \* energy.output["growth_rate"]
    fruit_count,       \* logic.output["fruit_count"]
    health_status,     \* control.output["health_status"]
    call               \* the last daily_update call: its arguments, the state it
                       \* found and the values of its locals

vars == <<years, day, free, age, stored_nutrients, tree_size, has_leaves, health,
          growth_rate, fruit_count, health_status, call>>

----------------------------------------------------------------------------
(* Bounds of the exploration *)

MaxYears == 5
MaxFree == 2

----------------------------------------------------------------------------
(* Fixed-point arithmetic standing for float arithmetic *)

SCALE == 10^3

Mul(a, b) == (a * b) \div SCALE

Abs(x) == IF x < 0 THEN -x ELSE x

Max(a, b) == IF a >= b THEN a ELSE b

\* int(): truncation toward zero of a fixed-point number, to a whole number
Trunc(x) == IF x >= 0 THEN x \div SCALE ELSE -((-x) \div SCALE)

\* a // 10 on floats: the floor of a/10, a whole number
FloorDiv10(x) == x \div (10 * SCALE)

\* math.pi, in units of 1/SCALE
PI == 3142

\* math.radians, of an angle in units of 1/SCALE degrees
Radians(deg) == (deg * PI) \div (180 * SCALE)

\* cos on [0, pi/2] by its Taylor series to x^10, in Horner form
CosReduced(x) ==
    LET x2 == Mul(x, x)
        t5 == SCALE - x2 \div 90
        t4 == SCALE - Mul(x2, t5) \div 56
        t3 == SCALE - Mul(x2, t4) \div 30
        t2 == SCALE - Mul(x2, t3) \div 12
    IN  SCALE - Mul(x2, t2) \div 2

\* math.cos of any angle: reduced to [0, pi/2] by the period (2 pi is 6.283)
\* and symmetry
Cos(x) ==
    LET TwoPi == 2 * PI - 1
        r == x % TwoPi
        h == IF r > PI THEN TwoPi - r ELSE r
    IN  IF 2 * h > PI THEN -CosReduced(PI - h) ELSE CosReduced(h)

\* math.sin
Sin(x) == Cos(x - PI \div 2)

----------------------------------------------------------------------------
(* The double held in Tree.age *)

BASE == 2^16

Limbs(l0, l1, l2, l3) == <<l0, l1, l2, l3>>

\* 0.0
Zero == Limbs(0, 0, 0, 0)

\* the double 1/365 = 0x1.6719f3601671ap-9 = 0x16719f3601671a * 2^-61
OneDay365 == Limbs(26394, 13825, 29087, 22)

\* the doubles 3.0 and 5.0
Three == Limbs(0, 0, 0, 3 * 2^13)
Five == Limbs(0, 0, 0, 5 * 2^13)

\* a + b, exactly
AddLimbs(a, b) ==
    LET s1 == a[1] + b[1]
        s2 == a[2] + b[2] + s1 \div BASE
        s3 == a[3] + b[3] + s2 \div BASE
        s4 == a[4] + b[4] + s3 \div BASE
    IN  Limbs(s1 % BASE, s2 % BASE, s3 % BASE, s4)

\* a <= b
LimbLeq(a, b) ==
    \/ a[4] < b[4]
    \/ a[4] = b[4] /\ a[3] < b[3]
    \/ a[4] = b[4] /\ a[3] = b[3] /\ a[2] < b[2]
    \/ a[4] = b[4] /\ a[3] = b[3] /\ a[2] = b[2] /\ a[1] <= b[1]

\* the number of bits of 0 <= x < 2^17
Bits(x) == CHOOSE k \in 0..17 : x < 2^k /\ (k = 0 \/ x >= 2^(k - 1))

BitLength(a) ==
    IF a[4] > 0 THEN 48 + Bits(a[4])
    ELSE IF a[3] > 0 THEN 32 + Bits(a[3])
    ELSE IF a[2] > 0 THEN 16 + Bits(a[2])
    ELSE Bits(a[1])

\* the exact sum rounded to a double: 53 significant bits, ties to even
RoundToDouble(a) ==
    LET drop == BitLength(a) - 53
    IN  IF drop <= 0 THEN a
        ELSE LET ulp == 2^drop
                 r == a[1] % ulp
                 down == Limbs(a[1] - r, a[2], a[3], a[4])
                 odd == (a[1] \div ulp) % 2 = 1
                 up == 2 * r > ulp \/ (2 * r = ulp /\ odd)
             IN  IF up THEN AddLimbs(down, Limbs(ulp, 0, 0, 0)) ELSE down

\* float addition
FloatAdd(a, b) == RoundToDouble(AddLimbs(a, b))

\* "a <= x <= b" on doubles
Between(a, x, b) == LimbLeq(a, x) /\ LimbLeq(x, b)

----------------------------------------------------------------------------
(* EnergyAspect *)

\* simulate_growth's latitude, 51.509865 degrees, in units of 1/SCALE
LATITUDE == 51510

\* x / 365.25
DivYear(x) == (x * 4) \div 1461

\* max(0, 1 - abs(25 - temperature) * 0.05)
temperature_factor(temperature) ==
    Max(0, SCALE - Mul(Abs(25 * SCALE - temperature), 50))

\* max(0, 1 - abs(50 - humidity) * 0.01)
humidity_factor(humidity) ==
    Max(0, SCALE - Mul(Abs(50 * SCALE - humidity), 10))

\* CO2_concentration / 400
CO2_factor(CO2_concentration) == CO2_concentration \div 400

\* D = 12 * (1 + cos(latitude_rad * seasonal_factor))
DayLength(day_of_year) ==
    LET latitude_rad == Radians(LATITUDE)
        seasonal_factor == Cos(DivYear(2 * PI * day_of_year))
    IN  12 * (SCALE + Cos(Mul(latitude_rad, seasonal_factor)))

\* I = cos(latitude_rad - declination_rad)
Intensity(day_of_year) ==
    LET latitude_rad == Radians(LATITUDE)
        declination == Mul(23440, Sin(DivYear(2 * PI * (day_of_year + 10))))
        declination_rad == Radians(declination)
    IN  Cos(latitude_rad - declination_rad)

\* EnergyAspect.photosynthesis, with a = 1
photosynthesis(leaves, size, day_of_year, temperature, humidity, CO2_concentration) ==
    IF ~leaves THEN 0
    ELSE LET D == DayLength(day_of_year)
             I == Intensity(day_of_year)
             leaf_area_multiplier == SCALE + Mul(100, size)
         IN  Mul(Mul(Mul(Mul(Mul(Mul(SCALE, D), I),
                             temperature_factor(temperature)),
                         humidity_factor(humidity)),
                     CO2_factor(CO2_concentration)),
                 leaf_area_multiplier)

\* the bud/root charge made whatever the nutrients are
BudRootGrowth_always(nutrients) == Mul(20, nutrients)

\* bud_root_growth_rate
BudRootGrowth(nutrients) ==
    IF nutrients > 20 * SCALE THEN Mul(20, nutrients) ELSE 0

\* "if stored_nutrients > 20: tree_size += 0.01", on the nutrients left after
\* the consumption
GrownSize(size, nutrients_left) ==
    IF nutrients_left > 20 * SCALE THEN size + 10 ELSE size

\* respiration_and_growth deciding the size on the nutrients before the
\* consumption
respiration_and_growth_before(nutrients, size) ==
    LET total_consumption == Mul(50, size) + BudRootGrowth(nutrients)
    IN  [stored_nutrients |-> nutrients - total_consumption,
         tree_size |-> GrownSize(size, nutrients),
         total_consumption |-> total_consumption]

\* respiration_and_growth shrinking a tree that is short of nutrients
respiration_and_growth_shrink(nutrients, size) ==
    LET total_consumption == Mul(50, size) + BudRootGrowth(nutrients)
        left == nutrients - total_consumption
    IN  [stored_nutrients |-> left,
         tree_size |-> IF left > 20 * SCALE THEN size + 10 ELSE size - 10,
         total_consumption |-> total_consumption]

\* EnergyAspect.respiration_and_growth: the new state and the value returned
respiration_and_growth(nutrients, size) ==
    LET respiration_rate == Mul(50, size)
        bud_root_growth_rate == BudRootGrowth(nutrients)
        total_consumption == respiration_rate + bud_root_growth_rate
        left == nutrients - total_consumption
    IN  [stored_nutrients |-> left,
         tree_size |-> GrownSize(size, left),
         total_consumption |-> total_consumption]

\* energy_generated = sunlight * water * 0.1 * photosynthesis_efficiency, for
\* a tree in leaf; a leafless tree adds nothing to its nutrients (0 here)
EnergyGenerated(leaves, size, sunlight, water, day_of_year, temperature, humidity, CO2) ==
    IF leaves
    THEN Mul(Mul(Mul(sunlight, water), 100),
             photosynthesis(leaves, size, day_of_year, temperature, humidity, CO2))
    ELSE 0

\* EnergyAspect.generate_energy: the new state, the value returned and the locals
generate_energy(leaves, nutrients, size, sunlight, water, day_of_year, temperature, humidity, CO2) ==
    LET energy_generated ==
            EnergyGenerated(leaves, size, sunlight, water, day_of_year,
                            temperature, humidity, CO2)
        r == respiration_and_growth(nutrients + energy_generated, size)
    IN  [stored_nutrients |-> r.stored_nutrients,
         tree_size |-> r.tree_size,
         energy_generated |-> energy_generated,
         total_consumption |-> r.total_consumption,
         net_energy |-> IF ~leaves THEN 0
                        ELSE energy_generated - r.total_consumption]

----------------------------------------------------------------------------
(* LogicAspect *)

\* 1 - 0.8 * cos(pi * day_of_year / 182.5)
seasonal_multiplier(day_of_year) ==
    SCALE - Mul(800, Cos((PI * day_of_year * 2) \div 365))

\* stored_nutrients * 0.1 * seasonal_multiplier * growth_multiplier
GrowthRate(nutrients, day_of_year, size, h) ==
    LET growth_multiplier == Mul(SCALE + Mul(50, size), h)
    IN  Mul(Mul(Mul(nutrients, 100), seasonal_multiplier(day_of_year)),
            growth_multiplier)

\* the fruiting condition without the upper age limit
FruitingCondition_no_upper_age(nutrients, day_of_year, tree_age) ==
    /\ 150 <= day_of_year /\ day_of_year <= 250
    /\ nutrients > 10 * SCALE
    /\ LimbLeq(Three, tree_age)

\* 150 <= day_of_year <= 250 and stored_nutrients > 10 and 3 <= tree_age <= 5
FruitingCondition(nutrients, day_of_year, tree_age) ==
    /\ 150 <= day_of_year /\ day_of_year <= 250
    /\ nutrients > 10 * SCALE
    /\ Between(Three, tree_age, Five)

\* the multiplier without its floor of 0.5
FruitProductionMultiplier_unfloored(h) == h

\* max(0.5, health)
FruitProductionMultiplier(h) == Max(500, h)

\* the count with a true division: int(stored_nutrients / 10 * multiplier)
FruitCount_true_division(nutrients, h) ==
    Trunc((nutrients * FruitProductionMultiplier(h)) \div (10 * SCALE))

\* int(stored_nutrients // 10 * fruit_production_multiplier)
FruitCount(nutrients, h) ==
    Trunc(FloorDiv10(nutrients) * FruitProductionMultiplier(h))

\* LogicAspect.decide_growth_and_fruit_production
decide_growth_and_fruit_production(nutrients, day_of_year, tree_age, size, h) ==
    LET rate == GrowthRate(nutrients, day_of_year, size, h)
    IN  IF FruitingCondition(nutrients, day_of_year, tree_age)
        THEN LET count == FruitCount(nutrients, h)
             IN  [growth_rate |-> rate,
                  stored_nutrients |-> nutrients - count * 500,
                  fruit_count |-> count]
        ELSE [growth_rate |-> rate,
              stored_nutrients |-> nutrients,
              fruit_count |-> 0]

----------------------------------------------------------------------------
(* ControlAspect *)

\* assess_health clamping the health at 0
assess_health_clamped(nutrients, disease_factor) ==
    LET h == SCALE - disease_factor
    IN  Max(0, IF nutrients < 10 * SCALE THEN h - 100 ELSE h)

\* ControlAspect.assess_health
assess_health(nutrients, disease_factor) ==
    LET h == SCALE - disease_factor
    IN  IF nutrients < 10 * SCALE THEN h - 100 ELSE h

----------------------------------------------------------------------------
(* Tree *)

\* the leafless window ending a day early
HasLeaves_short_window(day_of_year) ==
    ~ \/ 330 <= day_of_year /\ day_of_year <= 365
      \/ 1 <= day_of_year /\ day_of_year < 60

\* not (330 <= day_of_year <= 365 or 1 <= day_of_year <= 60)
HasLeaves(day_of_year) ==
    ~ \/ 330 <= day_of_year /\ day_of_year <= 365
      \/ 1 <= day_of_year /\ day_of_year <= 60

\* the status with "Healthy" only above 0.9
HealthStatus_strict(h) ==
    IF h > 900 THEN "Healthy"
    ELSE IF h <= 600 THEN "Unhealthy"
    ELSE "Average"

\* "Healthy" if health >= 0.9 else ("Unhealthy" if health <= 0.6 else "Average")
HealthStatus(h) ==
    IF h >= 900 THEN "Healthy"
    ELSE IF h <= 600 THEN "Unhealthy"
    ELSE "Average"

\* the double 1/365.25 = 0x1.66db072f2284dp-9
OneDay36525 == Limbs(10317, 29426, 28080, 22)

\* the age advanced by a day of a 365.25-day year
NextAge_leap(a) == FloatAdd(a, OneDay36525)

\* self.age += 1/365
NextAge(a) == FloatAdd(a, OneDay365)

\* the value of an output key that no daily_update has set yet
Unset == "unset"

\* Tree.daily_update.  Each step's result is bound once, in the order of the
\* code: the age, has_leaves, generate_energy, assess_health on the nutrients
\* generate_energy left, then decide_growth_and_fruit_production.
daily_update(sunlight, water, day_of_year, temperature, humidity, CO2, disease_factor) ==
    \E age1 \in {NextAge(age)}, leaves \in {HasLeaves(day_of_year)} :
    \E e \in {generate_energy(leaves, stored_nutrients, tree_size, sunlight, water,
                              day_of_year, temperature, humidity, CO2)} :
    \E nutrients \in {e.stored_nutrients}, size \in {e.tree_size} :
    \E h \in {assess_health(nutrients, disease_factor)} :
    \E d \in {decide_growth_and_fruit_production(nutrients, day_of_year, age1, size, h)} :
        /\ age' = age1
        /\ has_leaves' = leaves
        /\ tree_size' = size
        /\ stored_nutrients' = d.stored_nutrients
        /\ growth_rate' = d.growth_rate
        /\ fruit_count' = d.fruit_count
        /\ health' = h
        /\ health_status' = HealthStatus(h)
        /\ call' = [day_of_year |-> day_of_year,
                    disease_factor |-> disease_factor,
                    age |-> age,
                    stored_nutrients |-> stored_nutrients,
                    tree_size |-> tree_size,
                    has_leaves |-> has_leaves,
                    energy_generated |-> e.energy_generated,
                    total_consumption |-> e.total_consumption,
                    net_energy |-> e.net_energy,
                    nutrients_after_energy |-> nutrients]

\* Tree.get_data: the snapshot
get_data ==
    [age |-> age,
     energy |-> [stored_nutrients |-> stored_nutrients,
                 growth_rate |-> growth_rate,
                 tree_size |-> tree_size],
     logic |-> [fruit_count |-> fruit_count],
     control |-> [health |-> health, health_status |-> health_status]]

----------------------------------------------------------------------------
(* simulate_growth, and the callers after it *)

\* the nutrients a Tree is constructed with: simulate_growth's 50, Tree's
\* default of 800, and a tree that starts short of nutrients
InitialNutrients == {5 * SCALE, 50 * SCALE, 800 * SCALE}

\* the weather of simulate_growth's loop
Constant == [sunlight |-> SCALE, water |-> SCALE, temperature |-> 20 * SCALE,
             humidity |-> 50 * SCALE, CO2 |-> 400 * SCALE, disease_factor |-> 0]

\* the weather of the later calls: that of the loop; a greenhouse (ten times
\* the normal CO2 at the optimum temperature); and a degenerate reading (a
\* negative CO2 concentration) on a warm, dim, dry day
Weathers ==
    { [sunlight |-> Constant.sunlight, water |-> Constant.water,
       temperature |-> Constant.temperature, humidity |-> Constant.humidity,
       CO2 |-> Constant.CO2],
      [sunlight |-> SCALE, water |-> SCALE, temperature |-> 25 * SCALE,
       humidity |-> 50 * SCALE, CO2 |-> 4000 * SCALE],
      [sunlight |-> 900, water |-> 800, temperature |-> 28 * SCALE,
       humidity |-> 40 * SCALE, CO2 |-> (-8000) * SCALE] }

\* the day_of_year of the later calls: leafless (30), leafed (100), in the
\* fruiting window (200), and outside 1..365
Days == {0, 30, 100, 200, 400}

\* the disease_factor of the later calls, outside 0..1 too
DiseaseFactors == {0, 100, 250, 400, 2500, -500}

\* total_days = years * 365
total_days == years * 365

\* the number of daily_update calls made so far
Calls == day + free

Init ==
    /\ years \in 0..MaxYears
    /\ day = 0
    /\ free = 0
    /\ age = Zero
    /\ stored_nutrients \in (IF years = 0 THEN InitialNutrients ELSE {50 * SCALE})
    /\ tree_size = SCALE
    /\ has_leaves = TRUE
    /\ health = SCALE
    /\ growth_rate = Unset
    /\ fruit_count = Unset
    /\ health_status = Unset
    /\ call = [day_of_year |-> 0, disease_factor |-> 0, age |-> Zero,
               stored_nutrients |-> 0, tree_size |-> 0, has_leaves |-> TRUE,
               energy_generated |-> 0, total_consumption |-> 0, net_energy |-> 0,
               nutrients_after_energy |-> 0]

\* one iteration of simulate_growth's loop
SimulateDay ==
    /\ day < total_days
    /\ daily_update(Constant.sunlight, Constant.water, (day % 365) + 1,
                    Constant.temperature, Constant.humidity, Constant.CO2,
                    Constant.disease_factor)
    /\ day' = day + 1
    /\ UNCHANGED <<years, free>>

\* a daily_update call after the loop, with any arguments
LaterCall ==
    /\ day = total_days
    /\ free < MaxFree
    /\ \E w \in Weathers, d \in Days, f \in DiseaseFactors :
           daily_update(w.sunlight, w.water, d, w.temperature, w.humidity, w.CO2, f)
    /\ free' = free + 1
    /\ UNCHANGED <<years, day>>

Next == SimulateDay \/ LaterCall

Spec == Init /\ [][Next]_vars

----------------------------------------------------------------------------
(* The claims.  `call` holds what the last daily_update found and computed, *)
(* so a statement about "before and after a call" is a state predicate.     *)

\* the leafless window of the claims: [330,365] or [1,60]
InLeaflessWindow(d) == (330 <= d /\ d <= 365) \/ (1 <= d /\ d <= 60)

\* the fruiting condition of the claims, at the time of the growth decision
Fruiting ==
    /\ 150 <= call.day_of_year /\ call.day_of_year <= 250
    /\ call.nutrients_after_energy > 10 * SCALE
    /\ LimbLeq(Three, age) /\ LimbLeq(age, Five)

\* C1: tree_size starts at 1.0 and after every daily_update call it is greater
\* than or equal to its value before that call.
C1_SizeNeverDecreases ==
    /\ Calls = 0 => tree_size = SCALE
    /\ Calls > 0 => tree_size >= call.tree_size

\* a later call, with arbitrary inputs, that found a tree short of nutrients
\* and left its size as it was, after calls that had grown it
C1_Witness ==
    /\ free > 0
    /\ call.nutrients_after_energy <= 20 * SCALE
    /\ tree_size = call.tree_size
    /\ tree_size > SCALE

\* C2: after any daily_update call fruit_count is 0 whenever age < 3, age > 5,
\* day_of_year < 150, day_of_year > 250 or stored_nutrients <= 10 at the time
\* of the growth decision.
C2_FruitOnlyWhenFruiting ==
    Calls > 0 =>
        /\ ~LimbLeq(Three, age) => fruit_count = 0
        /\ ~LimbLeq(age, Five) => fruit_count = 0
        /\ call.day_of_year < 150 => fruit_count = 0
        /\ call.day_of_year > 250 => fruit_count = 0
        /\ call.nutrients_after_energy <= 10 * SCALE => fruit_count = 0

\* a call in the fruiting window with nutrients above 10, on a tree older than
\* 5 years, that produced no fruit
C2_Witness ==
    /\ Calls > 0
    /\ call.day_of_year = 200
    /\ call.nutrients_after_energy > 10 * SCALE
    /\ ~LimbLeq(age, Five)
    /\ fruit_count = 0

\* C3, as stated: when the fruiting condition holds the fruit count is
\* floor(stored_nutrients / 10 * max(0.5, health)) and the nutrients committed
\* are the post-energy nutrients minus 0.5 * fruit_count; otherwise the
\* committed nutrients are the post-energy nutrients.
C3_AsStated ==
    Calls > 0 =>
        IF Fruiting
        THEN /\ fruit_count =
                    (call.nutrients_after_energy * Max(500, health))
                        \div (10 * SCALE * SCALE)
             /\ stored_nutrients = call.nutrients_after_energy - 500 * fruit_count
        ELSE stored_nutrients = call.nutrients_after_energy

\* C3, amended: when the fruiting condition holds the fruit count is
\* floor(floor(stored_nutrients / 10) * max(0.5, health)), the whole tens of
\* nutrients being taken before the multiplication, and the nutrients
\* committed are the post-energy nutrients minus 0.5 * fruit_count; otherwise
\* the committed nutrients are the post-energy nutrients.
C3_FruitCountAndCost ==
    Calls > 0 =>
        IF Fruiting
        THEN /\ fruit_count =
                    ((call.nutrients_after_energy \div (10 * SCALE))
                         * Max(500, health)) \div SCALE
             /\ stored_nutrients = call.nutrients_after_energy - 500 * fruit_count
        ELSE stored_nutrients = call.nutrients_after_energy

\* a fruiting call whose count is below floor(nutrients / 10 * multiplier)
C3_Witness ==
    /\ Calls > 0
    /\ Fruiting
    /\ fruit_count > 0
    /\ fruit_count <
           (call.nutrients_after_energy * Max(500, health)) \div (10 * SCALE * SCALE)
    /\ stored_nutrients = call.nutrients_after_energy - 500 * fruit_count

\* C4: after every daily_update call, whatever the inputs (a disease_factor
\* outside 0..1 too), fruit_count is an integer greater than or equal to 0.
C4_FruitCountNatural ==
    Calls > 0 => get_data.logic.fruit_count \in Nat

\* a fruiting call with negative health that produced fruit
C4_Witness ==
    /\ Calls > 0
    /\ Fruiting
    /\ get_data.control.health < 0
    /\ get_data.logic.fruit_count > 0

\* C5: on every daily_update call with day_of_year in the leafless window no
\* photosynthetic energy is added and the net energy is 0, stored_nutrients
\* ends strictly below its value before the call, lower by exactly
\* 0.05 * tree_size + (0.02 * stored_nutrients if stored_nutrients > 20 else 0),
\* and fruit_count is 0.
C5_LeaflessDay ==
    Calls > 0 /\ InLeaflessWindow(call.day_of_year) =>
        /\ call.energy_generated = 0
        /\ call.net_energy = 0
        /\ stored_nutrients < call.stored_nutrients
        /\ stored_nutrients =
               call.stored_nutrients
                   - (Mul(50, call.tree_size)
                        + (IF call.stored_nutrients > 20 * SCALE
                           THEN Mul(20, call.stored_nutrients) ELSE 0))
        /\ fruit_count = 0

\* a leafless later call, given a weather, on a tree of fruiting age that has
\* no more than 20 nutrients
C5_Witness ==
    /\ free > 0
    /\ call.day_of_year = 30
    /\ LimbLeq(Three, age) /\ LimbLeq(age, Five)
    /\ call.stored_nutrients <= 20 * SCALE
    /\ call.net_energy = 0
    /\ stored_nutrients < call.stored_nutrients

\* C6: after every daily_update call has_leaves is false exactly when
\* day_of_year is in [330,365] or [1,60], whatever earlier calls left.
C6_LeavesFollowDay ==
    Calls > 0 => (has_leaves <=> ~InLeaflessWindow(call.day_of_year))

\* a leafed day that follows a leafless one
C6_Witness ==
    /\ Calls > 1
    /\ ~call.has_leaves
    /\ has_leaves

\* the double 1.0
One == Limbs(0, 0, 0, 2^13)

\* the tolerance of "approximately 1.0": 2^-47, about 7e-15
Tolerance == Limbs(2^14, 0, 0, 0)

\* a and b differ by no more than the tolerance
Near(a, b) ==
    /\ LimbLeq(a, AddLimbs(b, Tolerance))
    /\ LimbLeq(b, AddLimbs(a, Tolerance))

\* C7, as stated: age starts at 0, every daily_update call adds 1/365 to it
\* (here in the code's own arithmetic, "age + 1/365" on doubles) and none
\* decreases it, and after 365 calls the age equals 1.0.
C7_AsStated ==
    /\ Calls = 0 => age = Zero
    /\ Calls > 0 =>
           /\ age = FloatAdd(call.age, OneDay365)
           /\ LimbLeq(call.age, age)
    /\ Calls = 365 => age = One

\* C7, amended: age starts at 0.0; every daily_update call, whatever its
\* inputs, replaces it by the double nearest to age + 1/365, which is greater
\* than the age before; after 365 calls the age is within 2^-47 of 1.0.
C7_AgeAdvances ==
    /\ Calls = 0 => age = Zero
    /\ Calls > 0 =>
           /\ age = RoundToDouble(AddLimbs(call.age, OneDay365))
           /\ ~LimbLeq(age, call.age)
    /\ Calls = 365 => Near(age, One)

\* the age after 365 calls: near 1.0, and not 1.0
C7_Witness ==
    /\ Calls = 365
    /\ Near(age, One)
    /\ age # One

\* C8: after every daily_update call health_status is one of "Healthy",
\* "Unhealthy", "Average": "Healthy" iff health >= 0.9, "Unhealthy" iff
\* health <= 0.6, "Average" iff 0.6 < health < 0.9.
C8_StatusFollowsHealth ==
    Calls > 0 =>
        LET data == get_data.control
        IN  /\ data.health_status \in {"Healthy", "Unhealthy", "Average"}
            /\ data.health_status = "Healthy" <=> data.health >= 900
            /\ data.health_status = "Unhealthy" <=> data.health <= 600
            /\ data.health_status = "Average" <=>
                   (600 < data.health /\ data.health < 900)

\* a health of exactly 0.9, the nutrient penalty taken from a healthy tree
C8_Witness ==
    /\ Calls > 0
    /\ call.disease_factor = 0
    /\ health = 900
    /\ health_status = "Healthy"

\* C9: the reported health is 1.0 - disease_factor, less 0.1 exactly when the
\* nutrients left by generate_energy are below 10; the growth and fruit
\* decision is the one made on those nutrients, the incremented age, the
\* post-energy tree_size and that health.
C9_HealthBeforeDecision ==
    Calls > 0 =>
        /\ health = SCALE - call.disease_factor
                      - (IF call.nutrients_after_energy < 10 * SCALE THEN 100 ELSE 0)
        /\ growth_rate =
               GrowthRate(call.nutrients_after_energy, call.day_of_year,
                          tree_size, health)
        /\ fruit_count =
               (IF Fruiting
                THEN Trunc(FloorDiv10(call.nutrients_after_energy) * Max(500, health))
                ELSE 0)
        /\ stored_nutrients = call.nutrients_after_energy - 500 * fruit_count

\* a call whose fruit took the nutrients from 10 or more to below 10, and
\* whose health carries no penalty
C9_Witness ==
    /\ Calls > 0
    /\ call.nutrients_after_energy >= 10 * SCALE
    /\ stored_nutrients < 10 * SCALE
    /\ health = SCALE - call.disease_factor

\* the nutrients respiration_and_growth found in the last call
AtRespiration == call.stored_nutrients + call.energy_generated

\* C10: in respiration_and_growth the bud/root growth 0.02 * stored_nutrients
\* is charged only if stored_nutrients > 20 before the subtraction, and
\* tree_size changes by exactly +0.01 if stored_nutrients is > 20 after the
\* subtraction and by 0 otherwise.
C10_ChargeBeforeGrowthAfter ==
    Calls > 0 =>
        /\ call.total_consumption =
               Mul(50, call.tree_size)
                   + (IF AtRespiration > 20 * SCALE THEN Mul(20, AtRespiration) ELSE 0)
        /\ call.nutrients_after_energy = AtRespiration - call.total_consumption
        /\ tree_size =
               call.tree_size
                   + (IF call.nutrients_after_energy > 20 * SCALE THEN 10 ELSE 0)

\* a tree with more than 20 nutrients before the consumption and no more than
\* 20 after it: it paid the bud/root cost and did not grow
C10_Witness ==
    /\ Calls > 0
    /\ AtRespiration > 20 * SCALE
    /\ call.nutrients_after_energy <= 20 * SCALE
    /\ call.total_consumption > Mul(50, call.tree_size)
    /\ tree_size = call.tree_size

====
